---- MODULE Spec2Model ----
(***************************************************************************)
(* Model of the MENTIONSTACK Content Engine (src/app.py): the Streamlit    *)
(* session state, the operator's buttons and the generation progress block *)
(* that drives the generation queue one script run at a time.              *)
(*                                                                         *)
(* One action is one script run: the run in which a button returns True    *)
(* executes that button's handler up to its st.rerun(), and a run in which *)
(* no handler fires reaches the generation progress block and executes one *)
(* branch of it.  session_state is only written between two st.* calls, so *)
(* a run interrupted by a new widget event leaves either the state before  *)
(* or the state after the handler.                                         *)
(***************************************************************************)
EXTENDS Integers, Sequences, FiniteSets, TLC

VARIABLES
    claude_api_key,          \* st.session_state.claude_api_key
    gsc_data,                \* st.session_state.gsc_data
    selected_opportunities,  \* st.session_state.selected_opportunities
    generated_content,       \* st.session_state.generated_content
    generation_in_progress,  \* st.session_state.generation_in_progress
    generation_queue,        \* st.session_state.generation_queue
    generation_status,       \* st.session_state.generation_status
    show_confirm_modal,      \* st.session_state.show_confirm_modal
    pending_generation,      \* st.session_state.pending_generation
    current_tab,             \* st.session_state.current_tab
    call_log,                \* history: the calls of call_claude_for_content (item, what it returned)
    appended_for,            \* history: articles appended per item since generation_status was last cleared
    batches,                 \* history: number of batches confirmed so far
    current_article,         \* st.session_state.current_article
    chat_history,            \* st.session_state.chat_history
    article_mentioned,       \* history: the article the last chat turn resolved
    messages,                \* history: the messages of the last call of the chat collaborator
    row,                     \* the argument of calculate_opportunity_score
    score,                   \* the values of score in a call of calculate_opportunity_score
    find_args,               \* the arguments of a call of find_article_by_name
    best_match,              \* what the call of find_article_by_name returned
    pull_log                 \* history: per run of the pull handler, the calls it made and what they returned

vars == <<claude_api_key, gsc_data, selected_opportunities, generated_content,
          generation_in_progress, generation_queue, generation_status,
          show_confirm_modal, pending_generation, current_tab, call_log,
          appended_for, batches, current_article, chat_history,
          article_mentioned, messages, row, score, find_args, best_match, pull_log>>

\* the state of the chat section and of the scoring function
chatVars == <<current_article, chat_history, article_mentioned, messages>>
scoreVars == <<row, score>>
findVars == <<find_args, best_match>>
auxVars == <<chatVars, scoreVars, findVars, pull_log>>
\* the session state of the tabs, the modal and the generation block
sessionVars == <<claude_api_key, gsc_data, selected_opportunities, generated_content,
                 generation_in_progress, generation_queue, generation_status,
                 show_confirm_modal, pending_generation, current_tab, call_log,
                 appended_for, batches>>

----------------------------------------------------------------------------
(* Bounds *)

\* number of calls of call_claude_for_content in one behaviour
MaxCalls == 2
\* number of batches confirmed in one behaviour
MaxBatches == 2
\* number of query rows and of page rows of a data set given to prepare_opportunities
MaxQueries == 20
MaxPages == 20

----------------------------------------------------------------------------
(* Values *)

\* Python None (the error of a successful call, a NEW opportunity's page)
NoneVal == "None"
\* Python None where the other values are dicts (gsc_data, current_article, a row)
NoneDict == [none |-> TRUE]

Range(s) == {s[i] : i \in DOMAIN s}
Min(a, b) == IF a < b THEN a ELSE b

\* a Python dict: a function whose domain is the set of its keys
EmptyDict == [k \in {} |-> "x"]
Put(d, k, v) == [x \in (DOMAIN d) \cup {k} |-> IF x = k THEN v ELSE d[x]]
Del(d, k) == [x \in (DOMAIN d) \ {k} |-> d[x]]
Get(d, k, default) == IF k \in DOMAIN d THEN d[k] ELSE default

\* keys of generation_status: opp['id'] and f"{opp['id']}_msg" / _started / _error
StatusKey(id) == <<id, "">>
MsgKey(id) == <<id, "_msg">>
StartedKey(id) == <<id, "_started">>
ErrorKey(id) == <<id, "_error">>

----------------------------------------------------------------------------
(* Python str operations, on TLA+ strings *)

Lowers == "abcdefghijklmnopqrstuvwxyz"
Uppers == "ABCDEFGHIJKLMNOPQRSTUVWXYZ"

\* s[i], 1-based
Char(s, i) == SubSeq(s, i, i)
\* the 1-based place of the character c in the alphabet, 0 when it is not in it
IndexIn(c, alphabet) ==
    IF \E i \in 1..Len(alphabet) : Char(alphabet, i) = c
    THEN CHOOSE i \in 1..Len(alphabet) : Char(alphabet, i) = c
    ELSE 0
IsCased(c) == IndexIn(c, Lowers) # 0 \/ IndexIn(c, Uppers) # 0
LowerChar(c) == IF IndexIn(c, Uppers) # 0 THEN Char(Lowers, IndexIn(c, Uppers)) ELSE c
UpperChar(c) == IF IndexIn(c, Lowers) # 0 THEN Char(Uppers, IndexIn(c, Lowers)) ELSE c

\* str.lower()
RECURSIVE Lower(_)
Lower(s) ==
    IF Len(s) = 0 THEN ""
    ELSE Lower(SubSeq(s, 1, Len(s) - 1)) \o LowerChar(Char(s, Len(s)))

\* sub in s
IsSubstr(sub, s) ==
    \E i \in 0..(Len(s) - Len(sub)) : SubSeq(s, i + 1, i + Len(sub)) = sub

\* s.find(sub), 0-based, -1 when absent
FindStr(s, sub) ==
    IF IsSubstr(sub, s)
    THEN CHOOSE i \in 0..(Len(s) - Len(sub)) :
            /\ SubSeq(s, i + 1, i + Len(sub)) = sub
            /\ \A j \in 0..(i - 1) : SubSeq(s, j + 1, j + Len(sub)) # sub
    ELSE 0 - 1

\* s.replace(a, b) for one-character a and b
RECURSIVE ReplaceChar(_, _, _)
ReplaceChar(s, a, b) ==
    IF Len(s) = 0 THEN ""
    ELSE ReplaceChar(SubSeq(s, 1, Len(s) - 1), a, b)
            \o (IF Char(s, Len(s)) = a THEN b ELSE Char(s, Len(s)))

\* s.split(sep)[-1]: what follows the last separator
RECURSIVE LastSegment(_, _)
LastSegment(s, sep) ==
    IF Len(s) = 0 \/ Char(s, Len(s)) = sep THEN ""
    ELSE LastSegment(SubSeq(s, 1, Len(s) - 1), sep) \o Char(s, Len(s))

\* str.title(): a cased character is upper-cased after an uncased one (or at
\* the start) and lower-cased after a cased one
RECURSIVE Title(_)
Title(s) ==
    IF Len(s) = 0 THEN ""
    ELSE LET c == Char(s, Len(s))
             after_cased == Len(s) > 1 /\ IsCased(Char(s, Len(s) - 1))
         IN  Title(SubSeq(s, 1, Len(s) - 1))
                \o (IF after_cased THEN LowerChar(c) ELSE UpperChar(c))

\* s.split(sep, 1)[1] when sep occurs in s: what follows its first occurrence
AfterFirst(s, sep) == SubSeq(s, FindStr(s, sep) + Len(sep) + 1, Len(s))
\* s.split(sep)[0]: what precedes the first separator
BeforeFirst(s, sep) == IF IsSubstr(sep, s) THEN SubSeq(s, 1, FindStr(s, sep)) ELSE s

\* s.strip(), the only whitespace being the space
RECURSIVE Strip(_)
Strip(s) ==
    IF Len(s) = 0 THEN ""
    ELSE IF Char(s, 1) = " " THEN Strip(SubSeq(s, 2, Len(s)))
    ELSE IF Char(s, Len(s)) = " " THEN Strip(SubSeq(s, 1, Len(s) - 1))
    ELSE s

\* s.split(): the words between the runs of spaces
RECURSIVE Words(_)
Words(s) ==
    LET t == Strip(s)
    IN  IF Len(t) = 0 THEN <<>>
        ELSE <<BeforeFirst(t, " ")>>
                \o (IF IsSubstr(" ", t) THEN Words(AfterFirst(t, " ")) ELSE <<>>)

----------------------------------------------------------------------------
(* Opportunity scoring.  format_data rounds position to 2 places and ctr   *)
(* to 4 places: a position is held in hundredths, a ctr in                 *)
(* ten-thousandths, an expected ctr in millionths.                         *)

\* PositionScore with the best band open at its edges: 4 < position < 10
PositionScore_OpenBestBand(position) ==
    IF 400 < position /\ position < 1000 THEN 35
    ELSE IF 1100 <= position /\ position <= 1500 THEN 28
    ELSE IF 100 <= position /\ position <= 300 THEN 15
    ELSE IF 1600 <= position /\ position <= 3000 THEN 20
    ELSE 10

\* the position bands, in the order the code tests them
PositionScore(position) ==
    IF 400 <= position /\ position <= 1000 THEN 35
    ELSE IF 1100 <= position /\ position <= 1500 THEN 28
    ELSE IF 100 <= position /\ position <= 300 THEN 15
    ELSE IF 1600 <= position /\ position <= 3000 THEN 20
    ELSE 10

ImpressionsScore(impressions) ==
    IF impressions >= 10000 THEN 30
    ELSE IF impressions >= 5000 THEN 25
    ELSE IF impressions >= 1000 THEN 18
    ELSE IF impressions >= 500 THEN 12
    ELSE 5

\* the expected_ctr table looked up with int(position), in millionths
ExpectedCtr(position) ==
    LET p == position \div 100
    IN  CASE p = 1 -> 280000 [] p = 2 -> 150000 [] p = 3 -> 110000
          [] p = 4 -> 80000 [] p = 5 -> 70000 [] p = 6 -> 50000
          [] p = 7 -> 40000 [] p = 8 -> 35000 [] p = 9 -> 30000
          [] p = 10 -> 25000 [] OTHER -> 20000

\* actual_ctr < expected_ctr * (num / 4) as IEEE doubles compare it.  The
\* products by 0.5 and by 1 are exact; of the products by 0.75 those of
\* 0.05, 0.07 and 0.28 are rounded up to the next double above 0.0375,
\* 0.0525 and 0.21, so that an actual_ctr equal to that value is below it.
CtrBelow(actual_ctr, expected_ctr, num) ==
    IF num = 3 /\ expected_ctr \in {50000, 70000, 280000}
    THEN 400 * actual_ctr <= num * expected_ctr
    ELSE 400 * actual_ctr < num * expected_ctr

CtrScore(position, actual_ctr) ==
    LET expected_ctr == ExpectedCtr(position)
    IN  IF CtrBelow(actual_ctr, expected_ctr, 2) THEN 25
        ELSE IF CtrBelow(actual_ctr, expected_ctr, 3) THEN 18
        ELSE IF CtrBelow(actual_ctr, expected_ctr, 4) THEN 10
        ELSE 5

\* the values the local variable score takes after the position, the
\* impressions and the CTR scoring
ScoreSteps(r) ==
    LET position == Get(r, "position", 10000)
        impressions == Get(r, "impressions", 0)
        actual_ctr == Get(r, "ctr", 0)
        s1 == 0 + PositionScore(position)
        s2 == s1 + ImpressionsScore(impressions)
        s3 == s2 + CtrScore(position, actual_ctr)
    IN  <<s1, s2, s3>>

\* calculate_opportunity_score whose else branches add nothing
calculate_opportunity_score_NoBasePoints(r) == Min(ScoreSteps(r)[3] - 20, 100)

calculate_opportunity_score(r) == Min(ScoreSteps(r)[3], 100)

----------------------------------------------------------------------------
(* prepare_opportunities *)

\* the length of the ranked list
MaxOpportunities == 25
\* the minimum impressions of an opportunity
MinImpressions == 100

\* Retained that drops a record with exactly the minimum impressions
Retained_AboveMinimum(r) == Get(r, "impressions", 0) > MinImpressions

Retained(r) == Get(r, "impressions", 0) >= MinImpressions

QueryOpp(query_row) ==
    [id |-> "query_" \o query_row.query,
     type |-> "NEW",
     keyword |-> query_row.query,
     page |-> NoneVal,
     position |-> query_row.position,
     impressions |-> query_row.impressions,
     ctr |-> query_row.ctr,
     clicks |-> query_row.clicks,
     score |-> calculate_opportunity_score(query_row)]

PageOpp(page_row) ==
    [id |-> "page_" \o page_row.page,
     type |-> "REFRESH",
     keyword |-> Title(ReplaceChar(LastSegment(page_row.page, "/"), "-", " ")),
     page |-> page_row.page,
     position |-> page_row.position,
     impressions |-> page_row.impressions,
     ctr |-> page_row.ctr,
     clicks |-> page_row.clicks,
     score |-> calculate_opportunity_score(page_row)]

RECURSIVE MapQueryOpp(_)
MapQueryOpp(rows) ==
    IF rows = <<>> THEN <<>>
    ELSE <<QueryOpp(Head(rows))>> \o MapQueryOpp(Tail(rows))
RECURSIVE MapPageOpp(_)
MapPageOpp(rows) ==
    IF rows = <<>> THEN <<>>
    ELSE <<PageOpp(Head(rows))>> \o MapPageOpp(Tail(rows))

\* all opportunities in encounter order: the retained queries, then the
\* retained pages
AllOpportunities(data) ==
    MapQueryOpp(SelectSeq(data.queries, Retained))
        \o MapPageOpp(SelectSeq(data.pages, Retained))

\* list.sort(key=score, reverse=True) is stable: x goes behind every element
\* whose score is at least its own
\* InsertByScore that puts x before the elements of equal score
RECURSIVE InsertByScore_BeforeEqual(_, _)
InsertByScore_BeforeEqual(sorted, x) ==
    IF sorted = <<>> THEN <<x>>
    ELSE IF Head(sorted).score > x.score
         THEN <<Head(sorted)>> \o InsertByScore_BeforeEqual(Tail(sorted), x)
         ELSE <<x>> \o sorted

RECURSIVE InsertByScore(_, _)
InsertByScore(sorted, x) ==
    IF sorted = <<>> THEN <<x>>
    ELSE IF Head(sorted).score >= x.score
         THEN <<Head(sorted)>> \o InsertByScore(Tail(sorted), x)
         ELSE <<x>> \o sorted
RECURSIVE SortByScore(_)
SortByScore(opps) ==
    IF opps = <<>> THEN <<>>
    ELSE InsertByScore(SortByScore(SubSeq(opps, 1, Len(opps) - 1)), opps[Len(opps)])

\* prepare_opportunities that takes the first 25 without sorting
prepare_opportunities_Unsorted(data) ==
    IF data = NoneDict THEN <<>>
    ELSE LET sorted == AllOpportunities(data)
         IN  SubSeq(sorted, 1, Min(MaxOpportunities, Len(sorted)))

prepare_opportunities(data) ==
    IF data = NoneDict THEN <<>>
    ELSE LET sorted == SortByScore(AllOpportunities(data))
         IN  SubSeq(sorted, 1, Min(MaxOpportunities, Len(sorted)))

\* The data set of the generation model: two queries and one page, ranked
\* a, b, x/c.
RowA == [query |-> "a", clicks |-> 40, impressions |-> 12000, ctr |-> 33, position |-> 550]
RowB == [query |-> "b", clicks |-> 30, impressions |-> 1500, ctr |-> 200, position |-> 1200]
RowC == [page |-> "x/c", clicks |-> 20, impressions |-> 400, ctr |-> 500, position |-> 4500]
OppA == QueryOpp(RowA)
OppB == QueryOpp(RowB)
OppC == PageOpp(RowC)

ScrapedC ==
    [url |-> "x/c", status |-> "success", title |-> "C guide", h1 |-> "C",
     clicks |-> 20, impressions |-> 400, ctr |-> 500, position |-> 4500]

d1 == [queries |-> <<RowA, RowB>>, pages |-> <<RowC>>, scraped_pages |-> <<ScrapedC>>]

Datasets == {d1}

\* The metrics of the rows of the data sets given to prepare_opportunities, in
\* a cycle: impressions below, at and above the threshold and missing, and
\* two kinds (the second and the eighth) with the same score.
RowKinds ==
    << [clicks |-> 1, impressions |-> 50, ctr |-> 100, position |-> 550],
       [clicks |-> 2, impressions |-> 150, ctr |-> 100, position |-> 550],
       [clicks |-> 90, impressions |-> 12000, ctr |-> 300, position |-> 1200],
       [clicks |-> 1, impressions |-> 100, ctr |-> 50, position |-> 4500],
       [clicks |-> 0, ctr |-> 0, position |-> 700],
       [clicks |-> 3, impressions |-> 99, ctr |-> 300, position |-> 150],
       [clicks |-> 120, impressions |-> 600, ctr |-> 2000, position |-> 250],
       [clicks |-> 14, impressions |-> 700, ctr |-> 200, position |-> 800] >>

\* the i-th row of a list whose first row has the kind after the k-th
KindOf(i, k) == RowKinds[((i + k - 1) % Len(RowKinds)) + 1]
\* format_data(rows, ['query']) and format_data(rows, ['page']): the key, then the metrics
QueryRow(i, k) == [query |-> Char(Lowers, i)] @@ KindOf(i, k)
PageRow(i, k) == [page |-> "x/" \o Char(Lowers, i)] @@ KindOf(i, k + 1)

PrepDatasets ==
    {[queries |-> [i \in 1..nq |-> QueryRow(i, k)],
      pages |-> [i \in 1..np |-> PageRow(i, k)],
      scraped_pages |-> <<>>] :
        nq \in 0..MaxQueries, np \in 0..MaxPages, k \in 0..(Len(RowKinds) - 1)}

----------------------------------------------------------------------------
(* Text values are sequences of lexical units.  A response of the          *)
(* text-generation collaborator is either an exception or a text.          *)

\* the code-fence markers: three backquotes followed by json, and three backquotes
FenceJson == "<fence>json"
Fence == "<fence>"

\* JSON documents a response can carry: an object with the three keys, an
\* object with only "content", the empty object, a non-empty array, and 0
JsonDocs == {"{title_tag,meta_description,content}", "{content}", "{}", "[1]", "0"}

\* json.loads of one document; the value keeps its Python type
JsonValue(doc) ==
    CASE doc = "{title_tag,meta_description,content}" ->
            [tag |-> "dict", d |-> [title_tag |-> <<"t">>, meta_description |-> <<"m">>,
                                    content |-> <<"<h1>">>]]
      [] doc = "{content}" -> [tag |-> "dict", d |-> [content |-> <<"<h1>">>]]
      [] doc = "{}" -> [tag |-> "dict", d |-> EmptyDict]
      [] doc = "[1]" -> [tag |-> "list", d |-> EmptyDict]
      [] doc = "0" -> [tag |-> "int", d |-> EmptyDict]

NoContent == [tag |-> "None", d |-> EmptyDict]

\* Python truthiness of a content_data value
Truthy(v) ==
    CASE v.tag = "dict" -> DOMAIN v.d # {}
      [] v.tag = "list" -> TRUE
      [] OTHER -> FALSE

\* str.find(sub, start) over units, 0-based, -1 when absent
Find(text, subs, start) ==
    LET hits == {i \in (start + 1)..Len(text) : text[i] \in subs}
    IN  IF hits = {} THEN 0 - 1
        ELSE (CHOOSE i \in hits : \A j \in hits : i <= j) - 1

\* Python slice text[a:b] with 0-based bounds, b = -1 meaning "up to the last unit"
Slice(text, a, b) ==
    LET hi == IF b < 0 THEN Len(text) + b ELSE Min(b, Len(text))
    IN  IF a >= hi THEN <<>> ELSE SubSeq(text, a + 1, hi)

\* the response text after the removal of the code-fence markers
StripFences(text) ==
    IF FenceJson \in Range(text)
    THEN LET json_start == Find(text, {FenceJson}, 0) + 1
             json_end == Find(text, {Fence, FenceJson}, json_start)
         IN  Slice(text, json_start, json_end)
    ELSE IF Fence \in Range(text)
    THEN LET json_start == Find(text, {Fence}, 0) + 1
             json_end == Find(text, {Fence}, json_start)
         IN  Slice(text, json_start, json_end)
    ELSE text

\* json.loads succeeds on exactly one JSON document
Parses(text) == Len(text) = 1 /\ text[1] \in JsonDocs

\* generate_content_brief: the lines of the brief (label, value)
generate_content_brief(opp) ==
    << [label |-> "", value |-> "Generate SEO-optimized content for this opportunity:"],
       [label |-> "", value |-> ""],
       [label |-> "Keyword: ", value |-> opp.keyword],
       [label |-> "Type: ", value |-> opp.type],
       [label |-> "Target URL: ",
        value |-> IF opp.page # NoneVal THEN opp.page ELSE "New page needed"] >>

\* brief.split('\n')[0].replace('Keyword: ', '')
FirstLineWithoutKeywordLabel(brief) ==
    IF brief[1].label = "Keyword: " THEN brief[1].value
    ELSE brief[1].label \o brief[1].value

\* call_claude_for_content: <<content_data, error>> for the collaborator's response
call_claude_for_content(api_key, brief, resp) ==
    IF api_key = "" THEN <<NoContent, "API key not configured">>
    ELSE IF resp.kind = "raise" THEN <<NoContent, resp.msg>>
    ELSE LET response_text == StripFences(resp.text)
         IN  IF Parses(response_text)
             THEN <<JsonValue(response_text[1]), NoneVal>>
             ELSE <<[tag |-> "dict",
                     d |-> [title_tag |-> <<FirstLineWithoutKeywordLabel(brief)>>,
                            meta_description |-> Slice(response_text, 0, 160),
                            content |-> response_text]], NoneVal>>

\* responses of the collaborator that the model draws from
Responses ==
    {[kind |-> "raise", msg |-> m, text |-> <<>>] : m \in {"", "overloaded"}}
    \cup {[kind |-> "text", msg |-> "", text |-> t] :
            t \in {<<"{title_tag,meta_description,content}">>, <<"{}">>, <<"[1]">>,
                   <<"Here", "is", "the", "article">>}}

----------------------------------------------------------------------------
(* Session state after the initialisation block *)

\* datetime.now().strftime("%b %d, %Y"): the session's day
Today == "Nov 05, 2026"

SessionInit ==
    /\ claude_api_key \in {"", "sk-key"}
    /\ gsc_data = NoneDict
    /\ selected_opportunities = {}
    /\ generated_content = <<>>
    /\ generation_in_progress = FALSE
    /\ generation_queue = <<>>
    /\ generation_status = EmptyDict
    /\ show_confirm_modal = FALSE
    /\ pending_generation = <<>>   \* None: the code only tests its truth value
    /\ current_tab = "opportunities"
    /\ call_log = <<>>
    /\ appended_for = EmptyDict
    /\ batches = 0
    /\ current_article = NoneDict
    /\ chat_history = <<>>
    /\ article_mentioned = NoneDict
    /\ messages = <<>>
    /\ pull_log = <<>>

\* no call of find_article_by_name is under way
NoFind ==
    /\ find_args = NoneDict
    /\ best_match = <<>>

Init ==
    /\ SessionInit
    /\ row = NoneDict
    /\ score = <<>>
    /\ NoFind

\* prepare_opportunities of the values gsc_data has in the generation model,
\* computed once
RankedList == [data \in Datasets \cup {NoneDict} |-> prepare_opportunities(data)]
\* opportunities = prepare_opportunities(st.session_state.gsc_data)
opportunities ==
    IF gsc_data \in DOMAIN RankedList THEN RankedList[gsc_data]
    ELSE prepare_opportunities(gsc_data)
OppIds(q) == {q[i].id : i \in DOMAIN q}

----------------------------------------------------------------------------
(* Header and opportunities tab *)

\* "Refresh Data" button
RefreshData ==
    /\ gsc_data' = NoneDict
    /\ selected_opportunities' = {}
    /\ UNCHANGED <<auxVars, claude_api_key, generated_content, generation_in_progress,
                   generation_queue, generation_status, show_confirm_modal,
                   pending_generation, current_tab, call_log, appended_for, batches>>

\* "Pull GSC Data" button, both fetches returning rows
PullGSCData ==
    /\ gsc_data = NoneDict
    /\ \E data \in Datasets : gsc_data' = data
    /\ UNCHANGED <<auxVars, claude_api_key, selected_opportunities, generated_content,
                   generation_in_progress, generation_queue, generation_status,
                   show_confirm_modal, pending_generation, current_tab, call_log, appended_for,
                   batches>>

\* the selection checkbox of one row of the table
ToggleCheckbox ==
    /\ gsc_data # NoneDict
    /\ \E i \in DOMAIN opportunities :
         LET id == opportunities[i].id
         IN  /\ selected_opportunities' =
                   IF id \in selected_opportunities
                   THEN selected_opportunities \ {id}
                   ELSE selected_opportunities \cup {id}
    /\ UNCHANGED <<auxVars, claude_api_key, gsc_data, generated_content,
                   generation_in_progress, generation_queue, generation_status,
                   show_confirm_modal, pending_generation, current_tab, call_log, appended_for,
                   batches>>

\* "Select Top 10" button
SelectTop10 ==
    /\ gsc_data # NoneDict
    /\ opportunities # <<>>
    /\ selected_opportunities' = OppIds(SubSeq(opportunities, 1, Min(10, Len(opportunities))))
    /\ UNCHANGED <<auxVars, claude_api_key, gsc_data, generated_content,
                   generation_in_progress, generation_queue, generation_status,
                   show_confirm_modal, pending_generation, current_tab, call_log, appended_for,
                   batches>>

IsSelected(opp) == opp.id \in selected_opportunities

\* "Generate Selected" button (disabled when nothing is selected)
GenerateSelected ==
    /\ gsc_data # NoneDict
    /\ opportunities # <<>>
    /\ Cardinality(selected_opportunities) # 0
    /\ pending_generation' = SelectSeq(opportunities, IsSelected)
    /\ show_confirm_modal' = TRUE
    /\ UNCHANGED <<auxVars, claude_api_key, gsc_data, selected_opportunities,
                   generated_content, generation_in_progress, generation_queue,
                   generation_status, current_tab, call_log, appended_for, batches>>

----------------------------------------------------------------------------
(* Confirmation modal *)

ModalShown == show_confirm_modal /\ pending_generation # <<>>

\* "Cancel" button
CancelModal ==
    /\ ModalShown
    /\ show_confirm_modal' = FALSE
    /\ pending_generation' = <<>>
    /\ UNCHANGED <<auxVars, claude_api_key, gsc_data, selected_opportunities,
                   generated_content, generation_in_progress, generation_queue,
                   generation_status, current_tab, call_log, appended_for, batches>>

\* "Generate" button
ConfirmGenerate ==
    /\ ModalShown
    /\ batches < MaxBatches
    /\ generation_queue' = pending_generation
    /\ generation_in_progress' = TRUE
    /\ show_confirm_modal' = FALSE
    /\ pending_generation' = <<>>
    /\ current_tab' = "generated"
    /\ batches' = batches + 1
    /\ UNCHANGED <<auxVars, claude_api_key, gsc_data, selected_opportunities,
                   generated_content, generation_status, call_log, appended_for>>

----------------------------------------------------------------------------
(* Generation progress block *)

BlockActive == generation_in_progress /\ generation_queue # <<>>

total == Len(generation_queue)
\* len([s for s in generation_status.values() if s == 'completed'])
completed ==
    Cardinality({k \in DOMAIN generation_status : generation_status[k] = "completed"})
current_idx == completed
\* generation_queue[current_idx], the queue being 0-based in the source
current_opp == generation_queue[current_idx + 1]
\* generation_status.get(opp['id'], 'pending')
StatusOf(id) == Get(generation_status, StatusKey(id), "pending")

\* StartItem that also takes an item in error: an automatic retry
StartItem_AlsoOnError ==
    /\ BlockActive
    /\ current_idx < total
    /\ StatusOf(current_opp.id) \in {"pending", "error"}
    /\ generation_status' =
          Put(Put(generation_status, StatusKey(current_opp.id), "generating"),
              MsgKey(current_opp.id), "Analyzing search intent...")
    /\ UNCHANGED <<auxVars, claude_api_key, gsc_data, selected_opportunities,
                   generated_content, generation_in_progress, generation_queue,
                   show_confirm_modal, pending_generation, current_tab, call_log,
                   appended_for, batches>>

\* status == 'pending': start generating this one
StartItemOn(gc) ==
    /\ BlockActive
    /\ current_idx < total
    /\ StatusOf(current_opp.id) = "pending"
    /\ generation_status' =
          Put(Put(generation_status, StatusKey(current_opp.id), "generating"),
              MsgKey(current_opp.id), "Analyzing search intent...")
    /\ generated_content' = gc
    /\ UNCHANGED <<auxVars, claude_api_key, gsc_data, selected_opportunities,
                   generation_in_progress, generation_queue,
                   show_confirm_modal, pending_generation, current_tab, call_log, appended_for,
                   batches>>

StartItem == StartItemOn(generated_content)

\* status == 'generating' and no _started key: mark as started
MarkStartedOn(gc) ==
    /\ BlockActive
    /\ current_idx < total
    /\ StatusOf(current_opp.id) = "generating"
    /\ StartedKey(current_opp.id) \notin DOMAIN generation_status
    /\ generation_status' =
          Put(Put(generation_status, StartedKey(current_opp.id), "True"),
              MsgKey(current_opp.id), "Analyzing search intent...")
    /\ generated_content' = gc
    /\ UNCHANGED <<auxVars, claude_api_key, gsc_data, selected_opportunities,
                   generation_in_progress, generation_queue,
                   show_confirm_modal, pending_generation, current_tab, call_log, appended_for,
                   batches>>

MarkStarted == MarkStartedOn(generated_content)

\* the article saved for current_opp from a dict content_data
NewContent(opp, d) ==
    [id |-> Len(generated_content),
     title |-> opp.keyword,
     type |-> opp.type,
     date |-> Today,
     status |-> "Draft",
     title_tag |-> Get(d, "title_tag", <<opp.keyword>>),
     meta_description |-> Get(d, "meta_description", <<>>),
     content |-> Get(d, "content", <<>>)]

\* status == 'generating' with the _started key: generate content and record
\* the result.  content_data.get raises AttributeError on a truthy value that
\* is not a dict: the run ends there, after the _msg update, with no rerun.
GenerateAndRecordOn(gc) ==
    /\ BlockActive
    /\ current_idx < total
    /\ StatusOf(current_opp.id) = "generating"
    /\ StartedKey(current_opp.id) \in DOMAIN generation_status
    /\ Len(call_log) < MaxCalls
    /\ \E resp \in Responses :
         LET id == current_opp.id
             gs1 == Put(generation_status, MsgKey(id), "Crafting compelling intro...")
             brief == generate_content_brief(current_opp)
             result == call_claude_for_content(claude_api_key, brief, resp)
             content_data == result[1]
             error == result[2]
         IN  /\ call_log' = Append(call_log,
                    [id |-> id,
                     returned |-> IF Truthy(content_data) /\ error \in {NoneVal, ""}
                                  THEN "content" ELSE "no content",
                     content |-> Get(content_data.d, "content", <<>>)])
             /\ IF Truthy(content_data) /\ error \in {NoneVal, ""}
                THEN IF content_data.tag = "dict"
                     THEN /\ generated_content' =
                                Append(gc, NewContent(current_opp, content_data.d))
                          /\ generation_status' =
                                Del(Put(gs1, StatusKey(id), "completed"), StartedKey(id))
                          /\ appended_for' = Put(appended_for, id, Get(appended_for, id, 0) + 1)
                     ELSE /\ generation_status' = gs1
                          /\ generated_content' = gc
                          /\ UNCHANGED appended_for
                ELSE /\ generation_status' =
                          Del(Put(Put(gs1, StatusKey(id), "error"), ErrorKey(id),
                                  IF error \in {NoneVal, ""} THEN "Generation failed"
                                  ELSE error),
                              StartedKey(id))
                     /\ generated_content' = gc
                     /\ UNCHANGED appended_for
    /\ UNCHANGED <<auxVars, claude_api_key, gsc_data, selected_opportunities,
                   generation_in_progress, generation_queue, show_confirm_modal,
                   pending_generation, current_tab, batches>>

GenerateAndRecord == GenerateAndRecordOn(generated_content)

\* status == 'error': "Retry" button
Retry ==
    /\ BlockActive
    /\ current_idx < total
    /\ StatusOf(current_opp.id) = "error"
    /\ generation_status' = Put(generation_status, StatusKey(current_opp.id), "pending")
    /\ UNCHANGED <<auxVars, claude_api_key, gsc_data, selected_opportunities,
                   generated_content, generation_in_progress, generation_queue,
                   show_confirm_modal, pending_generation, current_tab, call_log, appended_for,
                   batches>>

\* Skip that marks the item completed instead of skipped
Skip_MarksCompleted ==
    /\ BlockActive
    /\ current_idx < total
    /\ StatusOf(current_opp.id) = "error"
    /\ generation_status' = Put(generation_status, StatusKey(current_opp.id), "completed")
    /\ UNCHANGED <<auxVars, claude_api_key, gsc_data, selected_opportunities,
                   generated_content, generation_in_progress, generation_queue,
                   show_confirm_modal, pending_generation, current_tab, call_log,
                   appended_for, batches>>

\* status == 'error': "Skip" button
Skip ==
    /\ BlockActive
    /\ current_idx < total
    /\ StatusOf(current_opp.id) = "error"
    /\ generation_status' = Put(generation_status, StatusKey(current_opp.id), "skipped")
    /\ UNCHANGED <<auxVars, claude_api_key, gsc_data, selected_opportunities,
                   generated_content, generation_in_progress, generation_queue,
                   show_confirm_modal, pending_generation, current_tab, call_log, appended_for,
                   batches>>

\* AllDone that leaves the per-item status of the batch behind
AllDone_KeepsStatus ==
    /\ BlockActive
    /\ ~(current_idx < total)
    /\ generation_in_progress' = FALSE
    /\ generation_queue' = <<>>
    /\ appended_for' = EmptyDict
    /\ UNCHANGED <<auxVars, claude_api_key, gsc_data, selected_opportunities,
                   generated_content, generation_status, show_confirm_modal,
                   pending_generation, current_tab, call_log, batches>>

\* AllDone that clears the generated articles with the batch
AllDone_DropsContent ==
    /\ BlockActive
    /\ ~(current_idx < total)
    /\ generation_in_progress' = FALSE
    /\ generation_queue' = <<>>
    /\ generation_status' = EmptyDict
    /\ appended_for' = EmptyDict
    /\ generated_content' = <<>>
    /\ UNCHANGED <<auxVars, claude_api_key, gsc_data, selected_opportunities,
                   show_confirm_modal, pending_generation, current_tab, call_log,
                   batches>>

\* current_idx >= total: all done
AllDoneOn(gc) ==
    /\ BlockActive
    /\ ~(current_idx < total)
    /\ generation_in_progress' = FALSE
    /\ generation_queue' = <<>>
    /\ generation_status' = EmptyDict
    /\ appended_for' = EmptyDict
    /\ generated_content' = gc
    /\ UNCHANGED <<auxVars, claude_api_key, gsc_data, selected_opportunities,
                   show_confirm_modal, pending_generation,
                   current_tab, call_log, batches>>

AllDone == AllDoneOn(generated_content)

\* One run of the generation progress block.  With any other status of
\* current_opp (skipped, completed) no branch applies and the run changes
\* nothing; with status error it only renders the two buttons.
GenerationStep == StartItem \/ MarkStarted \/ GenerateAndRecord \/ AllDone

\* the same run of the block after the earlier part of the script has set
\* generated_content to gc
GenerationStepOn(gc) ==
    StartItemOn(gc) \/ MarkStartedOn(gc) \/ GenerateAndRecordOn(gc) \/ AllDoneOn(gc)

----------------------------------------------------------------------------
(* Generated content tab *)

\* a branch of the block applies: there is a step the run executes
StepApplies ==
    /\ BlockActive
    /\ \/ ~(current_idx < total)
       \/ StatusOf(current_opp.id) = "pending"
       \/ /\ StatusOf(current_opp.id) = "generating"
          /\ \/ StartedKey(current_opp.id) \notin DOMAIN generation_status
             \/ Len(call_log) < MaxCalls

\* SetStatus that also empties the article's content
SetStatus_DropsContent(gc, i, new_status) ==
    [gc EXCEPT ![i].status = new_status, ![i].content = <<>>]

\* content['status'] = new_status for the i-th article
SetStatus(gc, i, new_status) == [gc EXCEPT ![i].status = new_status]

\* The "Status" selectbox of one article.  The handler does not rerun: the
\* same script run goes on to the generation progress block and executes
\* the branch that applies there.
ChangeStatus ==
    \E i \in DOMAIN generated_content, new_status \in {"Draft", "Sent"} :
        /\ new_status # generated_content[i].status
        /\ IF StepApplies
           THEN GenerationStepOn(SetStatus(generated_content, i, new_status))
           ELSE /\ generated_content' = SetStatus(generated_content, i, new_status)
                /\ UNCHANGED <<auxVars, claude_api_key, gsc_data, selected_opportunities,
                               generation_in_progress, generation_queue,
                               generation_status, show_confirm_modal,
                               pending_generation, current_tab, call_log,
                               appended_for, batches>>

Next ==
    \/ RefreshData
    \/ PullGSCData
    \/ ToggleCheckbox
    \/ SelectTop10
    \/ GenerateSelected
    \/ CancelModal
    \/ ConfirmGenerate
    \/ StartItem
    \/ MarkStarted
    \/ GenerateAndRecord
    \/ AllDone
    \/ Retry
    \/ Skip
    \/ ChangeStatus

Spec == Init /\ [][Next]_vars

\* The block ends every branch of a run that changed the queue state with
\* st.rerun(), so the next run of the block always follows.
FairSpec == Spec /\ WF_vars(GenerationStep)

----------------------------------------------------------------------------
(* Chat section *)

\* number of chat inputs in one behaviour
MaxTurns == 2

\* (page.get(field) or ''): a missing field or None gives the empty string
Text(page, field) ==
    IF field \in DOMAIN page /\ page[field] # NoneVal THEN page[field] ELSE ""

\* the score find_article_by_name gives a page for the words of the name
RECURSIVE WordScore(_, _)
WordScore(name_words, page) ==
    IF name_words = <<>> THEN 0
    ELSE LET word == Head(name_words)
         IN  (IF IsSubstr(word, Lower(Text(page, "title"))) THEN 3 ELSE 0)
              + (IF IsSubstr(word, Lower(Text(page, "h1"))) THEN 2 ELSE 0)
              + (IF IsSubstr(word, Lower(Text(page, "url"))) THEN 1 ELSE 0)
              + WordScore(Tail(name_words), page)

PageScore(name_lower, page) ==
    WordScore(Words(name_lower), page)
        + (IF \/ IsSubstr(name_lower, Lower(Text(page, "title")))
              \/ IsSubstr(name_lower, Lower(Text(page, "h1")))
           THEN 10 ELSE 0)

\* find_article_by_name with `score >= best_score`: the last of the best pages
find_article_by_name_LaterOnTies(name, scraped_pages) ==
    LET name_lower == Lower(name)
        ok == {i \in DOMAIN scraped_pages : Text(scraped_pages[i], "status") = "success"}
        page_score == [i \in ok |-> PageScore(name_lower, scraped_pages[i])]
        best == {i \in ok : /\ page_score[i] > 0
                            /\ \A j \in ok : page_score[j] <= page_score[i]}
    IN  IF best = {} THEN NoneDict
        ELSE scraped_pages[CHOOSE i \in best : \A j \in best : i >= j]

\* find_article_by_name: the first successfully scraped page with the highest
\* score, None when no score is above 0
find_article_by_name(name, scraped_pages) ==
    LET name_lower == Lower(name)
        ok == {i \in DOMAIN scraped_pages : Text(scraped_pages[i], "status") = "success"}
        page_score == [i \in ok |-> PageScore(name_lower, scraped_pages[i])]
        best == {i \in ok : /\ page_score[i] > 0
                            /\ \A j \in ok : page_score[j] <= page_score[i]}
    IN  IF best = {} THEN NoneDict
        ELSE scraped_pages[CHOOSE i \in best : \A j \in best : i <= j]

\* the page the loop breaks at: the first of the places hits, None when there is none
FirstPage(scraped_pages, hits) ==
    IF hits = {} THEN NoneDict
    ELSE scraped_pages[CHOOSE i \in hits : \A j \in hits : i <= j]

rewrite_keywords == {"rewrite", "edit", "update", "improve", "article about", "guide", "post"}
\* the keywords after which the article name is looked for, in this order
name_keywords == <<"about", "guide", "article", "the">>

\* parts[1].strip().split('.')[0].split('?')[0].strip()
potential_name(user_input, keyword) ==
    Strip(BeforeFirst(BeforeFirst(Strip(AfterFirst(Lower(user_input), keyword)), "."), "?"))

\* the semantic matching: the match of the first keyword, from the k-th on,
\* whose potential name is longer than 3 and matches a page
RECURSIVE SemanticMatch(_, _, _)
SemanticMatch(user_input, scraped_pages, k) ==
    IF k > Len(name_keywords) THEN NoneDict
    ELSE LET keyword == name_keywords[k]
             found ==
                 IF /\ IsSubstr(keyword, Lower(user_input))
                    /\ Len(potential_name(user_input, keyword)) > 3
                 THEN find_article_by_name(potential_name(user_input, keyword), scraped_pages)
                 ELSE NoneDict
         IN  IF found # NoneDict THEN found
             ELSE SemanticMatch(user_input, scraped_pages, k + 1)

\* the URL matching without the break: the last scraped page whose URL occurs in the message
ArticleByUrl_NoBreak(user_input, scraped_pages) ==
    LET hits == {i \in DOMAIN scraped_pages :
                    /\ Text(scraped_pages[i], "url") # ""
                    /\ IsSubstr(Text(scraped_pages[i], "url"), user_input)}
    IN  IF hits = {} THEN NoneDict
        ELSE scraped_pages[CHOOSE i \in hits : \A j \in hits : i >= j]

\* the URL matching: the first scraped page whose URL occurs in the message
ArticleByUrl(user_input, scraped_pages) ==
    FirstPage(scraped_pages,
              {i \in DOMAIN scraped_pages :
                  /\ Text(scraped_pages[i], "url") # ""
                  /\ IsSubstr(Text(scraped_pages[i], "url"), user_input)})

\* The article resolution of the chat handler: the article the context is
\* built for and the new value of current_article.
ResolveArticle(user_input, data, current) ==
    LET scraped_pages == IF data # NoneDict THEN data.scraped_pages ELSE <<>>
        same_url == {i \in DOMAIN scraped_pages :
                        Text(scraped_pages[i], "url") = Text(current, "url")}
        by_url == ArticleByUrl(user_input, scraped_pages)
        by_name ==
            IF \E keyword \in rewrite_keywords : IsSubstr(keyword, Lower(user_input))
            THEN SemanticMatch(user_input, scraped_pages, 1)
            ELSE NoneDict
        mentioned ==
            IF scraped_pages = <<>> THEN NoneDict
            ELSE IF by_url # NoneDict THEN by_url
            ELSE IF by_name # NoneDict THEN by_name
            ELSE IF current # NoneDict THEN FirstPage(scraped_pages, same_url)
            ELSE NoneDict
    IN  [current_article |-> IF mentioned # NoneDict THEN mentioned ELSE current,
         article_mentioned |-> IF mentioned = NoneDict /\ current # NoneDict
                               THEN current ELSE mentioned]

\* scraped pages of the data sets of the chat model
PageLeather ==
    [url |-> "x/leather", status |-> "success", title |-> "PU Leather Guide",
     h1 |-> "PU Leather"]
PageShoes ==
    [url |-> "x/shoes", status |-> "success", title |-> "Best Running Shoes Guide",
     h1 |-> NoneVal]
\* the same URL scraped again at a later pull
PageShoesLater ==
    [url |-> "x/shoes", status |-> "success", title |-> "Running Shoes 2026",
     h1 |-> "Shoes"]
PageFailed == [url |-> "x/fail", status |-> "error", error |-> "Request error: timeout"]

ChatDatasets ==
    {[queries |-> <<>>, pages |-> <<>>, scraped_pages |-> sp] :
        sp \in {<<PageFailed, PageLeather, PageShoes>>, <<PageShoesLater>>, <<>>}}

\* what the operator types
UserInputs ==
    {"rewrite x/shoes",
     "fix x/leather and x/fail",
     "rewrite the article about running shoes",
     "update x/shoes about leather",
     "update the post on cats",
     "improve it",
     "make it shorter"}

\* the text-generation collaborator in the chat: a reply, or an exception
ChatReplies == {[kind |-> "text", text |-> "Done."], [kind |-> "raise", text |-> "overloaded"]}

\* "Pull GSC Data" button, the scrape returning the pages of one data set
PullPages ==
    /\ gsc_data = NoneDict
    /\ \E data \in ChatDatasets : gsc_data' = data
    /\ UNCHANGED <<auxVars, claude_api_key, selected_opportunities, generated_content,
                   generation_in_progress, generation_queue, generation_status,
                   show_confirm_modal, pending_generation, current_tab, call_log,
                   appended_for, batches>>

\* chat_history[-10:]: the number of messages of the history that are sent
HistoryWindow == 10
\* number of chat inputs in one behaviour of a long conversation
MaxLongTurns == 6

\* "\n".join(context_parts): the note on the current article and the data
\* summary when data is loaded, the list of generated content when there is some
Context(data, mentioned, content_list) ==
    (IF data # NoneDict
     THEN (IF mentioned # NoneDict
           THEN "**CURRENT ARTICLE BEING WORKED ON:** " \o Text(mentioned, "url") \o "\n"
           ELSE "")
          \o "**Google Search Console Data Context:**"
     ELSE "")
    \o (IF content_list # <<>> THEN "\n**Generated Content:**" ELSE "")

\* the messages sent: the last HistoryWindow entries of the history, which
\* ends with the current user message, that message replaced by the full message
BuildMessages(history, user_input, context) ==
    LET recent_history ==
            IF Len(history) > HistoryWindow
            THEN SubSeq(history, Len(history) - HistoryWindow + 1, Len(history))
            ELSE history
        full_message ==
            IF context # "" THEN context \o "\n\n**User Question:** " \o user_input
            ELSE user_input
    IN  SubSeq(recent_history, 1, Len(recent_history) - 1)
            \o <<[role |-> "user", content |-> full_message]>>

\* the handler that appends no assistant entry when the call raises
HandledHistory_SilentOnError(history, user_input, api_key, reply) ==
    IF api_key # "" /\ reply.kind = "raise"
    THEN Append(history, [role |-> "user", content |-> user_input])
    ELSE history \o <<[role |-> "user", content |-> user_input],
                      [role |-> "assistant", content |-> reply.text]>>

\* chat_history after the handler: the user message, then the response
HandledHistory(history, user_input, api_key, reply) ==
    LET response ==
            IF api_key = ""
            THEN "Please configure your Claude API key to use chat."
            ELSE IF reply.kind = "raise" THEN "Error: " \o reply.text
            ELSE reply.text
    IN  history \o <<[role |-> "user", content |-> user_input],
                     [role |-> "assistant", content |-> response]>>

\* one chat input out of inputs, at most turns of them in a behaviour,
\* handled to the st.rerun() that ends the handler
ChatTurnOf(inputs, turns) ==
    /\ Len(chat_history) < 2 * turns
    /\ \E user_input \in inputs, reply \in ChatReplies :
         LET resolved == ResolveArticle(user_input, gsc_data, current_article)
             context == Context(gsc_data, resolved.article_mentioned, generated_content)
         IN  /\ chat_history' = HandledHistory(chat_history, user_input, claude_api_key, reply)
             /\ IF claude_api_key # ""
                THEN /\ current_article' = resolved.current_article
                     /\ article_mentioned' = resolved.article_mentioned
                     /\ messages' =
                           BuildMessages(Append(chat_history,
                                                [role |-> "user", content |-> user_input]),
                                         user_input, context)
                ELSE /\ UNCHANGED <<current_article, messages>>
                     /\ article_mentioned' = NoneDict
    /\ UNCHANGED <<sessionVars, scoreVars, findVars, pull_log>>

ChatTurn == ChatTurnOf(UserInputs, MaxTurns)

ChatNext == PullPages \/ RefreshData \/ ChatTurn

ChatSpec == Init /\ [][ChatNext]_vars

\* a long conversation, every input being the same follow-up request
LongChatTurn == ChatTurnOf({"make it shorter"}, MaxLongTurns)

LongChatNext == PullPages \/ LongChatTurn

LongChatSpec == Init /\ [][LongChatNext]_vars

----------------------------------------------------------------------------
(* prepare_opportunities applied to the data of a pull *)

\* "Pull GSC Data" button, the fetches returning the rows of one data set
PullRows ==
    /\ gsc_data = NoneDict
    /\ \E data \in PrepDatasets : gsc_data' = data
    /\ UNCHANGED <<auxVars, claude_api_key, selected_opportunities, generated_content,
                   generation_in_progress, generation_queue, generation_status,
                   show_confirm_modal, pending_generation, current_tab, call_log,
                   appended_for, batches>>

PrepNext == PullRows \/ RefreshData

PrepSpec == Init /\ [][PrepNext]_vars

----------------------------------------------------------------------------
(* The pull handler with its collaborators: the two fetches of             *)
(* fetch_gsc_data and the page requests of scrape_top_pages                *)

\* max_pages of scrape_top_pages(page_data, max_pages=20)
max_pages == 20
\* longest list of page rows a fetch returns
MaxPullRows == 22
\* number of runs of the pull handler in one behaviour
MaxPulls == 2

\* the i-th page row of a fetch: the key is relative in every fifth row from
\* the second and missing in every seventh from the third
PullPage(i, k) ==
    IF i % 5 = 2 THEN [page |-> "/" \o Char(Lowers, i)] @@ KindOf(i, k + 1)
    ELSE IF i % 7 = 3 THEN KindOf(i, k + 1)
    ELSE PageRow(i, k)

\* what fetch_gsc_data returns, the rows as format_data leaves them: (rows, None) or ([], message)
FetchError == [rows |-> <<>>, error |-> "Permission denied (403)."]
QueryResults ==
    {FetchError} \cup {[rows |-> [i \in 1..n |-> QueryRow(i, 0)], error |-> NoneVal] : n \in {0, 2}}
PageResults ==
    {FetchError} \cup
    {[rows |-> [i \in 1..n |-> PullPage(i, k)], error |-> NoneVal] :
        n \in {0, 1, 4, max_pages, MaxPullRows}, k \in {0, 2}}

\* the URLs whose request fails: none, some, all
Failing == {{}, {"x/a", "x/d", "x/s"}, {"x/" \o Char(Lowers, i) : i \in 1..Len(Lowers)}}

\* sorted(pages_data, key=clicks, reverse=True): stable, equal clicks keep their order
RECURSIVE InsertByClicks(_, _)
InsertByClicks(sorted_pages, page) ==
    IF sorted_pages = <<>> THEN <<page>>
    ELSE IF Get(Head(sorted_pages), "clicks", 0) >= Get(page, "clicks", 0)
         THEN <<Head(sorted_pages)>> \o InsertByClicks(Tail(sorted_pages), page)
         ELSE <<page>> \o sorted_pages
RECURSIVE SortByClicks(_)
SortByClicks(pages_data) ==
    IF pages_data = <<>> THEN <<>>
    ELSE InsertByClicks(SortByClicks(SubSeq(pages_data, 1, Len(pages_data) - 1)),
                        pages_data[Len(pages_data)])

\* scrape_page_content(url): the page, or the record of the failed request
scrape_page_content(url, failing) ==
    IF url \in failing
    THEN [url |-> url, status |-> "error", error |-> "Request error: timeout"]
    ELSE [url |-> url, title |-> "Title of " \o url, h1 |-> NoneVal, status |-> "success"]

\* content.update(...): the metrics of the page row
Metrics(page) ==
    [clicks |-> Get(page, "clicks", 0), impressions |-> Get(page, "impressions", 0),
     ctr |-> Get(page, "ctr", 0), position |-> Get(page, "position", 0)]

\* the loop of scrape_top_pages that gives up at the first failed request
RECURSIVE ScrapeLoop_StopsAtError(_, _)
ScrapeLoop_StopsAtError(top_pages, failing) ==
    IF top_pages = <<>> THEN <<>>
    ELSE LET page == Head(top_pages)
             url == Get(page, "page", "")
         IN  IF url = "" \/ Char(url, 1) = "/"
             THEN ScrapeLoop_StopsAtError(Tail(top_pages), failing)
             ELSE IF url \in failing
             THEN <<[request |-> url,
                     content |-> Metrics(page) @@ scrape_page_content(url, failing)]>>
             ELSE <<[request |-> url,
                     content |-> Metrics(page) @@ scrape_page_content(url, failing)]>>
                    \o ScrapeLoop_StopsAtError(Tail(top_pages), failing)

\* the loop of scrape_top_pages: per page that is not skipped, the request
\* made and the record appended
RECURSIVE ScrapeLoop(_, _)
ScrapeLoop(top_pages, failing) ==
    IF top_pages = <<>> THEN <<>>
    ELSE LET page == Head(top_pages)
             url == Get(page, "page", "")
         IN  IF url = "" \/ Char(url, 1) = "/"
             THEN ScrapeLoop(Tail(top_pages), failing)
             ELSE <<[request |-> url,
                     content |-> Metrics(page) @@ scrape_page_content(url, failing)]>>
                    \o ScrapeLoop(Tail(top_pages), failing)

\* scrape_top_pages(pages_data, max_pages): the steps of its loop
scrape_top_pages(pages_data, failing) ==
    LET sorted_pages == SortByClicks(pages_data)
        top_pages == SubSeq(sorted_pages, 1, Min(max_pages, Len(sorted_pages)))
    IN  ScrapeLoop(top_pages, failing)

FetchCall(dimensions, result) ==
    [call |-> "fetch_gsc_data", dimensions |-> dimensions, returned |-> result]
GetCall(step) == [call |-> "requests.get", url |-> step.request]

\* the pull goes on to the page fetch although the query fetch failed
PageFetchReached_Always(query_error) == TRUE

\* `if query_error: ... st.stop()`: the handler goes on to the page fetch
PageFetchReached(query_error) == query_error = NoneVal

\* One run of the handler of "Pull GSC Data" from the query fetch on: the
\* value gsc_data has after it and the calls made.
PullRun(query_result, page_result, failing) ==
    LET query_call == FetchCall("query", query_result)
        page_call == FetchCall("page", page_result)
        query_data == query_result.rows
        page_data == page_result.rows
        steps == IF page_data # <<>> THEN scrape_top_pages(page_data, failing) ELSE <<>>
    IN  IF ~PageFetchReached(query_result.error)
        THEN [gsc_data |-> NoneDict, calls |-> <<query_call>>]
        ELSE IF page_result.error # NoneVal
        THEN [gsc_data |-> NoneDict, calls |-> <<query_call, page_call>>]
        ELSE IF query_data = <<>> /\ page_data = <<>>
        THEN [gsc_data |-> NoneDict, calls |-> <<query_call, page_call>>]
        ELSE [gsc_data |-> [queries |-> query_data, pages |-> page_data,
                            scraped_pages |-> [i \in DOMAIN steps |-> steps[i].content]],
              calls |-> <<query_call, page_call>> \o [i \in DOMAIN steps |-> GetCall(steps[i])]]

\* "Pull GSC Data" button, whatever the fetches and the page requests return
PullData ==
    /\ gsc_data = NoneDict
    /\ Len(pull_log) < MaxPulls
    /\ \E query_result \in QueryResults, page_result \in PageResults, failing \in Failing :
         LET run == PullRun(query_result, page_result, failing)
         IN  /\ gsc_data' = run.gsc_data
             /\ pull_log' = Append(pull_log, run.calls)
    /\ UNCHANGED <<chatVars, scoreVars, findVars, claude_api_key, selected_opportunities,
                   generated_content, generation_in_progress, generation_queue,
                   generation_status, show_confirm_modal, pending_generation, current_tab,
                   call_log, appended_for, batches>>

PullNext == PullData \/ RefreshData

PullSpec == Init /\ [][PullNext]_vars

----------------------------------------------------------------------------
(* calculate_opportunity_score applied to one row *)

\* positions in hundredths: the band edges and their neighbours, fractional
\* positions inside and between the bands, and the default 100
Positions ==
    {0, 50, 99, 100, 101, 250, 300, 301, 350, 399, 400, 401, 550, 600, 750,
     850, 999, 1000, 1001, 1050, 1099, 1100, 1500, 1501, 1550, 1599, 1600,
     3000, 3001, 10000}
Impressions == {0, 50, 99, 100, 150, 499, 500, 999, 1000, 4999, 5000, 9999, 10000, 20000}
\* ctr in ten-thousandths: 0, 1 and the band edges of the expected CTRs
Ctrs == {0, 99, 100, 124, 125, 149, 150, 199, 200, 250, 374, 375, 376, 400, 499, 500,
         525, 700, 800, 1400, 2099, 2100, 2101, 2800, 10000}

Restrict(r, keys) == [k \in keys |-> r[k]]
\* rows with every subset of the three fields present
ScoreRows ==
    {Restrict(r, keys) :
        r \in [position : Positions, impressions : Impressions, ctr : Ctrs],
        keys \in SUBSET {"position", "impressions", "ctr"}}

ScoreInit ==
    /\ SessionInit
    /\ row \in ScoreRows
    /\ score = <<>>
    /\ NoFind

\* one call of calculate_opportunity_score(row)
CalculateScore ==
    /\ row # NoneDict
    /\ score = <<>>
    /\ score' = ScoreSteps(row) \o <<calculate_opportunity_score(row)>>
    /\ UNCHANGED <<sessionVars, chatVars, row, findVars, pull_log>>

ScoreSpec == ScoreInit /\ [][CalculateScore]_vars

----------------------------------------------------------------------------
(* find_article_by_name applied to one name and one list of scraped pages *)

\* longest list of scraped pages of a call
MaxScraped == 3

ScrapedPages == {PageLeather, PageShoes, PageShoesLater, PageFailed}

ScrapedLists == UNION {[1..n -> ScrapedPages] : n \in 0..MaxScraped}

\* the names looked for: phrases of one to three words, a repeated word, upper
\* case, a word of the URLs only, a word no page has, the empty name
Names ==
    {"running shoes", "shoes", "guide", "pu leather guide", "shoes shoes",
     "PU Leather", "x/", "cats", ""}

FindInit ==
    /\ SessionInit
    /\ row = NoneDict
    /\ score = <<>>
    /\ find_args \in [name : Names, scraped_pages : ScrapedLists]
    /\ best_match = <<>>

\* one call of find_article_by_name(name, scraped_pages)
FindArticle ==
    /\ find_args # NoneDict
    /\ best_match = <<>>
    /\ best_match' = <<find_article_by_name(find_args.name, find_args.scraped_pages)>>
    /\ UNCHANGED <<sessionVars, chatVars, scoreVars, find_args, pull_log>>

FindSpec == FindInit /\ [][FindArticle]_vars

----------------------------------------------------------------------------
(* Vocabulary of the properties *)

Ids == {OppA.id, OppB.id, OppC.id}
QueueIds == OppIds(generation_queue)
\* the status of the i-th item of the current queue
QueueStatus(i) == StatusOf(generation_queue[i].id)
Statuses == {"pending", "generating", "completed", "error", "skipped"}
Terminal(st) == st \in {"completed", "skipped"}
AllTerminal == BlockActive /\ \A i \in DOMAIN generation_queue : Terminal(QueueStatus(i))
BatchCleared ==
    /\ ~generation_in_progress
    /\ generation_queue = <<>>
    /\ generation_status = EmptyDict
\* the non-empty sub-lists of the ranked list: the queues a batch can have
Queues ==
    {q \in UNION {[1..n -> Range(prepare_opportunities(d1))] : n \in 1..3} :
        \E f \in [1..Len(q) -> 1..3] :
            /\ \A i \in 1..Len(q) : q[i] = prepare_opportunities(d1)[f[i]]
            /\ \A i, j \in 1..Len(q) : i < j => f[i] < f[j]}

----------------------------------------------------------------------------
(* C1: once every item of the queue is completed or skipped, the next step *)
(* of the driving loop is the completion step.                             *)
C1_AllTerminalCompletes == AllTerminal => ENABLED AllDone

(* C2: the completion step is taken only when every item of the current    *)
(* queue is completed or skipped.                                          *)
C2_CompletionOnlyWhenAllTerminal ==
    [][AllDone => \A i \in DOMAIN generation_queue : Terminal(QueueStatus(i))]_vars

(* C3: after Skip, every later item of the queue that is still pending     *)
(* eventually leaves pending, as long as the batch stays in the queue and  *)
(* the collaborator can still be called.                                   *)
C3_SkipDoesNotBlock ==
    \A q \in Queues : \A i \in 1..Len(q) : \A j \in (i + 1)..Len(q) :
        (/\ BlockActive /\ generation_queue = q
         /\ StatusOf(q[i].id) = "skipped"
         /\ StatusOf(q[j].id) = "pending")
        ~> (\/ generation_queue # q
            \/ StatusOf(q[j].id) # "pending"
            \/ Len(call_log) = MaxCalls)

(* C4: at most one item of the current queue has status generating.        *)
C4_AtMostOneGenerating ==
    Cardinality({i \in DOMAIN generation_queue : QueueStatus(i) = "generating"}) <= 1

(* C5: an item of the queue leaves pending only when every earlier item of *)
(* the queue is completed or skipped.                                      *)
C5_InSubmissionOrder ==
    [][\A j \in DOMAIN generation_queue :
          (/\ generation_queue' = generation_queue
           /\ QueueStatus(j) = "pending"
           /\ QueueStatus(j)' # "pending")
          => \A i \in 1..(j - 1) : Terminal(QueueStatus(i))]_vars

----------------------------------------------------------------------------
\* the edges of the per-item state machine
Edges ==
    {<<"pending", "generating">>, <<"generating", "completed">>,
     <<"generating", "error">>, <<"error", "pending">>, <<"error", "skipped">>}

\* the call made by this step, when it makes one
CallMade == call_log' # call_log
LastCall == call_log'[Len(call_log')]
\* the status of an item after this step
NextStatusOf(id) == Get(generation_status', StatusKey(id), "pending")
\* this step appends exactly one article, a Draft for opp
AppendsArticleFor(opp) ==
    /\ Len(generated_content') = Len(generated_content) + 1
    /\ \A k \in DOMAIN generated_content :
          [generated_content'[k] EXCEPT !.status = "Draft"]
              = [generated_content[k] EXCEPT !.status = "Draft"]
    /\ LET article == generated_content'[Len(generated_content')]
       IN  /\ article.status = "Draft"
           /\ article.title = opp.keyword
           /\ article.type = opp.type

C7_CallOutcomeRecorded ==
    [][CallMade =>
         IF LastCall.returned = "content"
         THEN /\ AppendsArticleFor(current_opp)
              /\ NextStatusOf(LastCall.id) = "completed"
         ELSE /\ generated_content' = generated_content
              /\ NextStatusOf(LastCall.id) = "error"
              /\ ErrorKey(LastCall.id) \in DOMAIN generation_status'
              /\ generation_status'[ErrorKey(LastCall.id)] # ""]_vars

(* C8: while an item stays in the queue, its status error changes only by  *)
(* Retry or Skip on that item, only Retry moves it from error to pending,  *)
(* and the collaborator is never called for an item in error.              *)
C8_NoAutomaticRetry ==
    [][/\ \A id \in Ids :
            (/\ id \in QueueIds
             /\ id \in QueueIds'
             /\ StatusOf(id) = "error"
             /\ StatusOf(id)' # "error")
            => /\ current_opp.id = id
               /\ \/ Retry /\ StatusOf(id)' = "pending"
                  \/ Skip /\ StatusOf(id)' = "skipped"
       /\ CallMade => StatusOf(LastCall.id) = "generating"]_vars

\* Retry was pressed on an item in error: it is pending again, with its
\* error detail still recorded
W8_RetryPressed ==
    \E id \in QueueIds :
        /\ StatusKey(id) \in DOMAIN generation_status
        /\ StatusOf(id) = "pending"
        /\ ErrorKey(id) \in DOMAIN generation_status

(* C9: Retry puts the item in error back to pending, the collaborator is   *)
(* then called for it only as a generating item, and a call for a retried  *)
(* item that returns content without error completes the item and appends  *)
(* exactly one article for it.                                             *)
C9_RetryReentersPipeline ==
    [][/\ Retry => /\ StatusOf(current_opp.id) = "error"
                   /\ StatusOf(current_opp.id)' = "pending"
       /\ (/\ CallMade
           /\ ErrorKey(LastCall.id) \in DOMAIN generation_status
           /\ LastCall.returned = "content")
          => /\ StatusOf(LastCall.id) = "generating"
             /\ NextStatusOf(LastCall.id) = "completed"
             /\ AppendsArticleFor(current_opp)]_vars

(* C10: the completion step leaves generated_content unchanged, and at     *)
(* that step generated_content holds the one article appended for each     *)
(* completed item of the queue and none was appended for a skipped item.   *)
C10_CompletionKeepsArticles ==
    [][AllDone =>
         /\ generated_content' = generated_content
         /\ \A i \in DOMAIN generation_queue :
              LET opp == generation_queue[i]
              IN  /\ QueueStatus(i) = "completed" =>
                       /\ Get(appended_for, opp.id, 0) = 1
                       /\ \E k \in DOMAIN generated_content :
                            /\ generated_content[k].title = opp.keyword
                            /\ generated_content[k].type = opp.type
                  /\ QueueStatus(i) = "skipped" => Get(appended_for, opp.id, 0) = 0]_vars

\* a batch was completed and cleared, and its articles are still there
W10_ClearedWithArticles ==
    /\ batches > 0
    /\ BatchCleared
    /\ generated_content # <<>>

----------------------------------------------------------------------------
(* C11: from the confirmation of a batch until the completion step clears  *)
(* it, generation_queue does not change: every step taken with a non-empty *)
(* queue either leaves the queue as it is or is the completion step.       *)
C11_QueueFixedDuringBatch ==
    [][generation_queue # <<>> =>
          (generation_queue' = generation_queue \/ AllDoneOn(generated_content'))]_vars

----------------------------------------------------------------------------
(* C12: immediately after the operator confirms a batch, every item of the *)
(* new generation queue has status pending.                                *)
C12_NewBatchAllPending ==
    [][ConfirmGenerate =>
          \A i \in DOMAIN generation_queue' :
              NextStatusOf(generation_queue'[i].id) = "pending"]_vars

----------------------------------------------------------------------------
(* Vocabulary of the scoring claims *)

Returned == score # <<>>
\* the score calculate_opportunity_score returned
ReturnedScore == score[4]
\* the position the function scores: the field, 100 when it is missing
RowPosition == Get(row, "position", 10000)
RowImpressions == Get(row, "impressions", 0)
RowCtr == Get(row, "ctr", 0)
InBand(lo, hi) == lo * 100 <= RowPosition /\ RowPosition <= hi * 100

----------------------------------------------------------------------------
(* C13: for every record, also one with missing fields, the returned score *)
(* is an integer between 1 and 100.                                        *)
C13_ScoreInRange == Returned => ReturnedScore \in 1..100

\* a score was returned for a row without any field, and one for a full row
W13_ScoredWithoutFields == Returned /\ DOMAIN row = {} /\ ReturnedScore \in 1..100

----------------------------------------------------------------------------
(* C14: the position sub-score is 35 exactly for positions 4..10, 28       *)
(* exactly for 11..15, 20 exactly for 16..30, 15 exactly for 1..3 and 10   *)
(* for every other position.                                               *)
C14_PositionBands ==
    Returned =>
        /\ (score[1] = 35) <=> InBand(4, 10)
        /\ (score[1] = 28) <=> InBand(11, 15)
        /\ (score[1] = 20) <=> InBand(16, 30)
        /\ (score[1] = 15) <=> InBand(1, 3)
        /\ (score[1] = 10) <=>
              ~(InBand(4, 10) \/ InBand(11, 15) \/ InBand(16, 30) \/ InBand(1, 3))

\* position 10.00, the upper edge of the best band, was scored 35
W14_EdgeOfBestBand == Returned /\ RowPosition = 1000 /\ score[1] = 35

----------------------------------------------------------------------------
(* C15: the returned score is min(100, P + I + C), I being 30/25/18/12/5   *)
(* by impressions and C being 25/18/10/5 for an actual CTR below 50%,      *)
(* below 75%, below 100% of, or at least the expected CTR of int(position).*)
ClaimedImpressions ==
    IF RowImpressions >= 10000 THEN 30
    ELSE IF RowImpressions >= 5000 THEN 25
    ELSE IF RowImpressions >= 1000 THEN 18
    ELSE IF RowImpressions >= 500 THEN 12
    ELSE 5
\* expected CTR in millionths: the table for integer parts 1..10, else 0.02
ClaimedExpected ==
    LET table == <<280000, 150000, 110000, 80000, 70000, 50000, 40000, 35000, 30000, 25000>>
        p == RowPosition \div 100
    IN  IF p \in 1..10 THEN table[p] ELSE 20000
ClaimedCtr ==
    IF 200 * RowCtr < ClaimedExpected THEN 25
    ELSE IF 400 * RowCtr < 3 * ClaimedExpected THEN 18
    ELSE IF 100 * RowCtr < ClaimedExpected THEN 10
    ELSE 5
C15_ScoreFormula ==
    Returned => ReturnedScore = Min(100, score[1] + ClaimedImpressions + ClaimedCtr)

----------------------------------------------------------------------------
(* Vocabulary of the claims about prepare_opportunities *)

Loaded == gsc_data # NoneDict
\* a record with at least 100 impressions, a missing field counting as 0
AtLeast100(r) == "impressions" \in DOMAIN r /\ r.impressions >= 100
\* what each record with at least 100 impressions has to yield, in encounter
\* order: the queries in input order, then the pages in input order
Encounter ==
    LET q == SelectSeq(gsc_data.queries, AtLeast100)
        pg == SelectSeq(gsc_data.pages, AtLeast100)
    IN  [i \in 1..(Len(q) + Len(pg)) |->
            IF i <= Len(q)
            THEN [id |-> "query_" \o q[i].query, type |-> "NEW", page |-> NoneVal,
                  score |-> calculate_opportunity_score(q[i])]
            ELSE [id |-> "page_" \o pg[i - Len(q)].page, type |-> "REFRESH",
                  page |-> pg[i - Len(q)].page,
                  score |-> calculate_opportunity_score(pg[i - Len(q)])]]
\* the places of the list opps that hold the opportunity id
PlacesOf(opps, id) == {j \in DOMAIN opps : opps[j].id = id}
\* the encounter places whose opportunity is in the list opps
KeptPlaces(opps, enc) == {i \in DOMAIN enc : PlacesOf(opps, enc[i].id) # {}}

----------------------------------------------------------------------------
(* C16: a query or page record yields an opportunity if and only if it has *)
(* at least 100 impressions; before truncation each such record yields     *)
(* exactly one, NEW without page for a query, REFRESH with page = URL for  *)
(* a page.                                                                 *)
C16_RetainedIffAtLeast100 ==
    Loaded =>
        LET opps == opportunities
            enc == Encounter
        IN  /\ \A j \in DOMAIN opps :
                  \E i \in DOMAIN enc :
                      /\ opps[j].id = enc[i].id
                      /\ opps[j].type = enc[i].type
                      /\ opps[j].page = enc[i].page
            /\ \A i \in DOMAIN enc :
                  /\ Cardinality(PlacesOf(opps, enc[i].id)) <= 1
                  /\ Len(enc) <= 25 => Cardinality(PlacesOf(opps, enc[i].id)) = 1
            /\ \A i \in DOMAIN gsc_data.queries :
                  ~AtLeast100(gsc_data.queries[i]) =>
                      PlacesOf(opps, "query_" \o gsc_data.queries[i].query) = {}
            /\ \A i \in DOMAIN gsc_data.pages :
                  ~AtLeast100(gsc_data.pages[i]) =>
                      PlacesOf(opps, "page_" \o gsc_data.pages[i].page) = {}

\* of two query records with 50 and 150 impressions only the second is retained
W16_Only150Retained ==
    /\ Loaded
    /\ Len(gsc_data.queries) = 2
    /\ Len(gsc_data.pages) = 0
    /\ Get(gsc_data.queries[1], "impressions", 0) = 50
    /\ Get(gsc_data.queries[2], "impressions", 0) = 150
    /\ Len(opportunities) = 1
    /\ opportunities[1].id = "query_" \o gsc_data.queries[2].query
    /\ opportunities[1].type = "NEW"

----------------------------------------------------------------------------
(* C17: the ranked list is sorted by score in non-increasing order and has *)
(* at most 25 elements.                                                    *)
C17_SortedAndCapped ==
    Loaded =>
        LET opps == opportunities
        IN  /\ Len(opps) <= 25
            /\ \A j \in 1..(Len(opps) - 1) : opps[j].score >= opps[j + 1].score

\* more than 25 records were retained and the list of 25 spans several scores
W17_TruncatedList ==
    /\ Loaded
    /\ Len(Encounter) > 25
    /\ LET opps == opportunities
       IN  Len(opps) = 25 /\ opps[1].score > opps[25].score

----------------------------------------------------------------------------
(* C18: the ranked list is the first 25 elements of the stable descending  *)
(* sort of the retained opportunities in encounter order: equal scores     *)
(* keep encounter order (queries before pages), no dropped opportunity     *)
(* ranks before a kept one, the length is min(25, retained), and no input  *)
(* records give the empty list.                                            *)
C18_StableTop25 ==
    Loaded =>
        LET opps == opportunities
            enc == Encounter
            kept == KeptPlaces(opps, enc)
        IN  /\ Len(opps) = Min(25, Len(enc))
            /\ \A j \in DOMAIN opps : \E i \in DOMAIN enc : opps[j].id = enc[i].id
            /\ \A i1, i2 \in kept :
                  i1 < i2 =>
                      \A j1 \in PlacesOf(opps, enc[i1].id), j2 \in PlacesOf(opps, enc[i2].id) :
                          /\ j1 # j2
                          /\ enc[i1].score >= enc[i2].score <=> j1 < j2
            /\ \A i1 \in kept, i2 \in (DOMAIN enc) \ kept :
                  \/ enc[i2].score < enc[i1].score
                  \/ enc[i2].score = enc[i1].score /\ i1 < i2
            /\ (Len(gsc_data.queries) = 0 /\ Len(gsc_data.pages) = 0) => opps = <<>>

\* the cut falls between a kept query and a dropped page of the same score
W18_TieAtTheCut ==
    /\ Loaded
    /\ LET opps == opportunities
           enc == Encounter
           kept == KeptPlaces(opps, enc)
       IN  /\ Len(enc) > 25
           /\ \E i1 \in kept, i2 \in (DOMAIN enc) \ kept :
                 /\ enc[i1].type = "NEW" /\ enc[i2].type = "REFRESH"
                 /\ enc[i1].score = enc[i2].score

----------------------------------------------------------------------------
(* Vocabulary of the claim about generated_content *)

\* an article without its status
Fixed(article) == [article EXCEPT !.status = "Draft"]
\* the articles whose status this step changes
StatusChanged ==
    {k \in DOMAIN generated_content :
        generated_content'[k].status # generated_content[k].status}

----------------------------------------------------------------------------
(* C19: generated_content only grows by appending, an article's id, title, *)
(* type, title tag, meta description and content never change, its content *)
(* is the content string the text-generation call returned, and the only   *)
(* mutation is the operator's status toggle, which changes the status of   *)
(* that one article between Draft and Sent.                                *)
C19_ArticlesAppendOnly ==
    /\ [](\A k \in DOMAIN generated_content :
            /\ generated_content[k].status \in {"Draft", "Sent"}
            /\ generated_content[k].id = k - 1
            /\ \E c \in DOMAIN call_log :
                  /\ call_log[c].returned = "content"
                  /\ call_log[c].content = generated_content[k].content)
    /\ [][/\ Len(generated_content') >= Len(generated_content)
          /\ \A k \in DOMAIN generated_content :
                Fixed(generated_content'[k]) = Fixed(generated_content[k])
          /\ Cardinality(StatusChanged) <= 1
          /\ StatusChanged # {} => ChangeStatus
          /\ (CallMade /\ Len(generated_content') > Len(generated_content)) =>
                generated_content'[Len(generated_content')].content = LastCall.content]_vars

\* the operator has set the first article to Sent and a second article was
\* appended to the list
W19_SentThenAppended ==
    /\ Len(generated_content) = 2
    /\ generated_content[1].status = "Sent"
    /\ generated_content[2].status = "Draft"
    /\ generated_content[1].content # generated_content[2].content

----------------------------------------------------------------------------
(* Vocabulary of the claims about the chat *)

\* this step handles a chat input
ChatStep == Len(chat_history') = Len(chat_history) + 2
\* the message it handles
Message == chat_history'[Len(chat_history) + 1].content
Scraped == IF gsc_data # NoneDict THEN gsc_data.scraped_pages ELSE <<>>
\* the places of the scraped pages whose URL occurs in the message
UrlPlaces == {i \in DOMAIN Scraped : IsSubstr(Scraped[i].url, Message)}
\* the places of the scraped pages that have the URL of the remembered article
CurrentPlaces ==
    {i \in DOMAIN Scraped : current_article # NoneDict /\ Scraped[i].url = current_article.url}
Least(places) == CHOOSE i \in places : \A j \in places : i <= j
RewriteIntent == \E keyword \in rewrite_keywords : IsSubstr(keyword, Lower(Message))
\* the best keyword-overlap match for the phrase extracted from the message
NameMatch == SemanticMatch(Message, Scraped, 1)
\* the turn resolves the article to page and remembers it
ResolvesTo(page) == article_mentioned' = page /\ current_article' = page
\* the turn falls back to the remembered article and leaves it as it is
FallsBack == article_mentioned' = current_article /\ current_article' = current_article

----------------------------------------------------------------------------
(* C20: every chat message resolves the article (a) to the first scraped   *)
(* page whose URL occurs in the message, else (b) with a rewrite-intent    *)
(* keyword to the best keyword-overlap match, else (c) to the remembered   *)
(* current article; current_article is set to the page when (a) or (b)     *)
(* matched and is unchanged when nothing matched.                          *)
C20_ResolutionPriority ==
    [][ChatStep =>
         IF UrlPlaces # {} THEN ResolvesTo(Scraped[Least(UrlPlaces)])
         ELSE IF RewriteIntent /\ NameMatch # NoneDict THEN ResolvesTo(NameMatch)
         ELSE FallsBack]_vars

(* C20, amended: with an API key configured the resolution is (a), else    *)
(* (b), else (c), where (c) takes the first scraped page that has the URL  *)
(* of the remembered article, when there is one, and remembers that page;  *)
(* without an API key nothing is resolved and current_article is unchanged.*)
C20_ResolutionWithKey ==
    [][ChatStep =>
         IF claude_api_key = ""
         THEN article_mentioned' = NoneDict /\ current_article' = current_article
         ELSE IF UrlPlaces # {} THEN ResolvesTo(Scraped[Least(UrlPlaces)])
         ELSE IF RewriteIntent /\ NameMatch # NoneDict THEN ResolvesTo(NameMatch)
         ELSE IF CurrentPlaces # {} THEN ResolvesTo(Scraped[Least(CurrentPlaces)])
         ELSE FallsBack]_vars

\* a message naming an article by keywords was followed by one naming none:
\* the second turn worked on the remembered article
W20_FollowUpOnRemembered ==
    /\ claude_api_key # ""
    /\ Len(chat_history) = 4
    /\ chat_history[1].content = "rewrite the article about running shoes"
    /\ chat_history[3].content = "make it shorter"
    /\ current_article = PageShoes
    /\ article_mentioned = PageShoes

----------------------------------------------------------------------------
(* Vocabulary of the claim about find_article_by_name *)

\* find_article_by_name has returned
Found == best_match # <<>>
FoundPage == best_match[1]
\* the number of words of the phrase contained in a field of the page
WordsIn(phrase, page, field) ==
    LET words == Words(Lower(phrase))
    IN  Cardinality({k \in DOMAIN words : IsSubstr(words[k], Lower(Text(page, field)))})
\* the score the claim gives a page
ClaimedScore(phrase, page) ==
    3 * WordsIn(phrase, page, "title") + 2 * WordsIn(phrase, page, "h1")
        + WordsIn(phrase, page, "url")
        + (IF \/ IsSubstr(Lower(phrase), Lower(Text(page, "title")))
              \/ IsSubstr(Lower(phrase), Lower(Text(page, "h1")))
           THEN 10 ELSE 0)
\* the places of the successfully scraped pages with the highest score above 0
TopPlaces(phrase, pages) ==
    LET ok == {i \in DOMAIN pages : Text(pages[i], "status") = "success"}
        claimed == [i \in ok |-> ClaimedScore(phrase, pages[i])]
    IN  {i \in ok : claimed[i] > 0 /\ \A j \in ok : claimed[j] <= claimed[i]}

----------------------------------------------------------------------------
(* C21: find_article_by_name returns the earliest of the successfully      *)
(* scraped pages with the highest score 3 per word in the title + 2 per    *)
(* word in the H1 + 1 per word in the URL + 10 for the whole phrase in the *)
(* title or the H1, and no page when no such score is above 0; and the     *)
(* message 'rewrite the article about running shoes' selects a page titled *)
(* 'Best Running Shoes Guide' that no other scraped page outscores.        *)
C21_FindArticleByName ==
    Found =>
        LET pages == find_args.scraped_pages
            top == TopPlaces(find_args.name, pages)
            shoes == TopPlaces("running shoes", pages)
        IN  /\ FoundPage = (IF top = {} THEN NoneDict ELSE pages[Least(top)])
            /\ (/\ find_args.name = "running shoes"
                /\ shoes # {}
                /\ \A i \in shoes : pages[i].title = "Best Running Shoes Guide")
                  => SemanticMatch("rewrite the article about running shoes", pages, 1)
                        = pages[Least(shoes)]

\* two pages tie for the best score behind a page that failed: the earlier one is returned
W21_EarliestOfTheBest ==
    /\ Found
    /\ find_args.name = "guide"
    /\ find_args.scraped_pages = <<PageFailed, PageShoes, PageLeather>>
    /\ FoundPage = PageShoes

----------------------------------------------------------------------------
(* Vocabulary of the claims about the pull *)

\* this step is a run of the pull handler
PullRunStep == Len(pull_log') = Len(pull_log) + 1
\* the calls of the latest run
LastCalls == pull_log[Len(pull_log)]
IsFetch(c) == c.call = "fetch_gsc_data"
IsRequest(c) == c.call = "requests.get"
\* a fetch of the run returned an error
FetchFailed(calls) == \E i \in DOMAIN calls : IsFetch(calls[i]) /\ calls[i].returned.error # NoneVal
\* both fetches of the run returned no rows
BothEmpty(calls) ==
    /\ Len(calls) >= 2
    /\ \A i \in 1..2 : IsFetch(calls[i]) /\ calls[i].returned.rows = <<>>

----------------------------------------------------------------------------
(* C22: a run of the pull handler in which a fetch returned an error, or   *)
(* both returned no rows, leaves gsc_data unset, requests no page and      *)
(* yields no opportunity; gsc_data is assigned only after the query fetch  *)
(* and the page fetch both returned without error; the page fetch is not   *)
(* issued when the query fetch failed.                                     *)
C22_FetchFailureAborts ==
    [][PullRunStep =>
         LET calls == pull_log'[Len(pull_log')]
         IN  /\ (FetchFailed(calls) \/ BothEmpty(calls)) =>
                   /\ gsc_data' = gsc_data
                   /\ gsc_data' = NoneDict
                   /\ \A i \in DOMAIN calls : ~IsRequest(calls[i])
                   /\ prepare_opportunities(gsc_data') = <<>>
             /\ gsc_data' # gsc_data =>
                   /\ Len(calls) >= 2
                   /\ \A i \in 1..2 : IsFetch(calls[i]) /\ calls[i].returned.error = NoneVal
                   /\ calls[1].dimensions = "query" /\ calls[2].dimensions = "page"
             /\ (IsFetch(calls[1]) /\ calls[1].returned.error # NoneVal) => Len(calls) = 1]_vars

\* the query fetch returned rows and the page fetch an error: no data is loaded
W22_PageFetchFailed ==
    /\ pull_log # <<>>
    /\ Len(LastCalls) = 2
    /\ LastCalls[1].returned.rows # <<>>
    /\ LastCalls[2].returned.error # NoneVal
    /\ gsc_data = NoneDict

----------------------------------------------------------------------------
(* C23: the scraped pages of a pull are one record for each page row that  *)
(* is among the max_pages rows with the most clicks and has a non-empty    *)
(* URL not starting with '/', in descending order of clicks; a record has  *)
(* status success, or status error and a reason; one request was issued    *)
(* per record, also after a failed one, and none for another URL.          *)
C23_OneRecordPerTopPage ==
    (gsc_data # NoneDict /\ pull_log # <<>>) =>
        LET pages == gsc_data.pages
            scraped == gsc_data.scraped_pages
            requests == SubSeq(LastCalls, 3, Len(LastCalls))
            Clicks(i) == Get(pages[i], "clicks", 0)
            Url(i) == Get(pages[i], "page", "")
            Before(i, j) == Clicks(i) > Clicks(j) \/ (Clicks(i) = Clicks(j) /\ i < j)
            top == {i \in DOMAIN pages : Cardinality({j \in DOMAIN pages : Before(j, i)}) < max_pages}
            chosen == {i \in top : Url(i) # "" /\ Char(Url(i), 1) # "/"}
            Place(i) == 1 + Cardinality({j \in chosen : Before(j, i)})
        IN  /\ Len(scraped) = Cardinality(chosen)
            /\ \A i \in chosen :
                 LET content == scraped[Place(i)]
                 IN  /\ content.url = Url(i)
                     /\ content.clicks = Clicks(i)
                     /\ \/ content.status = "success"
                        \/ content.status = "error" /\ Len(content.error) > 0
            /\ \A k \in 1..(Len(scraped) - 1) : scraped[k].clicks >= scraped[k + 1].clicks
            /\ Len(requests) = Len(scraped)
            /\ \A k \in DOMAIN requests :
                 IsRequest(requests[k]) /\ requests[k].url = scraped[k].url

\* more than max_pages page rows were fetched, rows among the first max_pages
\* were skipped, and a page was scraped after the request of another failed
W23_ScrapedAfterFailure ==
    /\ gsc_data # NoneDict
    /\ Len(gsc_data.pages) > max_pages
    /\ Len(gsc_data.scraped_pages) < max_pages
    /\ \E k \in 1..(Len(gsc_data.scraped_pages) - 1) :
         /\ gsc_data.scraped_pages[k].status = "error"
         /\ gsc_data.scraped_pages[k + 1].status = "success"

----------------------------------------------------------------------------
(* Vocabulary of the claim about the responses *)

\* the content of the records json.loads gives
ParsedContents == {Get(JsonValue(doc).d, "content", <<>>) : doc \in JsonDocs}
\* the call returned the record made from a response text that did not parse
FallbackReturned == LastCall.returned = "content" /\ LastCall.content \notin ParsedContents

----------------------------------------------------------------------------
(* C24: a call that returns the record made from a response text that did  *)
(* not parse completes the item and appends an article whose content is    *)
(* that text; and whatever the response, parsed or not, the call leaves    *)
(* the item completed or in error, never generating.                       *)
C24_ResponseNeverFatal ==
    [][CallMade =>
         /\ FallbackReturned =>
               /\ AppendsArticleFor(current_opp)
               /\ generated_content'[Len(generated_content')].content = LastCall.content
               /\ NextStatusOf(LastCall.id) = "completed"
         /\ NextStatusOf(LastCall.id) \in {"completed", "error"}]_vars

----------------------------------------------------------------------------
(* C25: every position from 1 to 30, fractional ones included, gets the    *)
(* position sub-score of a named band, 35, 28, 20 or 15, never 10.         *)
C25_NoGapBetweenBands ==
    (Returned /\ "position" \in DOMAIN row /\ 100 <= RowPosition /\ RowPosition <= 3000)
        => score[1] \in {35, 28, 20, 15}

----------------------------------------------------------------------------
(* C26: generation_in_progress is true exactly when generation_queue is    *)
(* non-empty, and generation_status is empty whenever                      *)
(* generation_in_progress is false.                                        *)
C26_ProgressFlagMatchesQueue ==
    /\ generation_in_progress <=> generation_queue # <<>>
    /\ ~generation_in_progress => generation_status = EmptyDict

\* a batch in which the collaborator was called has run to its end: the
\* flag is false, the queue and the status are empty
W26_IdleAfterBatch ==
    /\ batches > 0
    /\ call_log # <<>>
    /\ ~generation_in_progress
    /\ generation_queue = <<>>
    /\ generation_status = EmptyDict

----------------------------------------------------------------------------
(* Vocabulary of the claim about the calls of the collaborator *)

HasStarted(id) == StartedKey(id) \in DOMAIN generation_status
\* the collaborator is called only for an item that is generating and has its started flag
CalledOnlyWhenStarted ==
    CallMade => StatusOf(LastCall.id) = "generating" /\ HasStarted(LastCall.id)
\* the call ends the generating status of its item and removes the started flag
CallEndsGenerating ==
    CallMade =>
        /\ NextStatusOf(LastCall.id) \in {"completed", "error"}
        /\ StartedKey(LastCall.id) \notin DOMAIN generation_status'
\* the steps that make an item generating or set its started flag make no call
NoCallWhileStarting ==
    \A id \in Ids :
        (\/ StatusOf(id) # "generating" /\ NextStatusOf(id) = "generating"
         \/ ~HasStarted(id) /\ StartedKey(id) \in DOMAIN generation_status')
        => ~CallMade
\* an item goes from generating to completed or error only with a call made for it
LeavesGeneratingByCall ==
    \A id \in Ids :
        (StatusOf(id) = "generating" /\ NextStatusOf(id) \in {"completed", "error"})
        => CallMade /\ LastCall.id = id

----------------------------------------------------------------------------
(* C27: an item that became generating gets its started flag on one step   *)
(* and the call of the collaborator on a later one; the call is made only  *)
(* for a generating item, ends its generating status and removes the flag, *)
(* so that there is exactly one call per time the item is generating.      *)
C27_OneCallPerGeneratingItem ==
    [][/\ CalledOnlyWhenStarted
       /\ CallEndsGenerating
       /\ NoCallWhileStarting
       /\ LeavesGeneratingByCall]_vars

----------------------------------------------------------------------------
(* Vocabulary of the claims about the chat history and the messages *)

\* the roles of a list of messages alternate
Alternates(list) == \A i \in 1..(Len(list) - 1) : list[i].role # list[i + 1].role
\* text ends with ending
EndsWith(text, ending) ==
    /\ Len(text) >= Len(ending)
    /\ SubSeq(text, Len(text) - Len(ending) + 1, Len(text)) = ending

----------------------------------------------------------------------------
(* C28: every step that changes chat_history appends exactly two entries,  *)
(* a user message and then an assistant entry, with or without an API key  *)
(* and also when the call raises; so chat_history always has even length   *)
(* and alternates user, assistant starting with user.                      *)
C28_TwoEntriesPerTurn ==
    /\ [](/\ Len(chat_history) % 2 = 0
          /\ \A i \in DOMAIN chat_history :
               chat_history[i].role = (IF i % 2 = 1 THEN "user" ELSE "assistant"))
    /\ [][chat_history' # chat_history =>
            /\ Len(chat_history') = Len(chat_history) + 2
            /\ SubSeq(chat_history', 1, Len(chat_history)) = chat_history
            /\ chat_history'[Len(chat_history) + 1].role = "user"
            /\ chat_history'[Len(chat_history) + 2].role = "assistant"]_vars

\* two inputs were handled and the call of the first one raised: its error
\* text is the assistant entry
W28_ErrorAnswered ==
    /\ Len(chat_history) = 4
    /\ chat_history[2].content = "Error: overloaded"

----------------------------------------------------------------------------
(* C29: the messages sent to the collaborator are at most 10, end with the *)
(* current user message, alternate roles and start with a user message.    *)
C29_MessagesWellFormed ==
    messages # <<>> =>
        /\ Len(messages) <= 10
        /\ messages[Len(messages)].role = "user"
        /\ EndsWith(messages[Len(messages)].content,
                    chat_history[Len(chat_history) - 1].content)
        /\ Alternates(messages)
        /\ messages[1].role = "user"

----------------------------------------------------------------------------
(* C30: whenever current_article is set, data is loaded and                *)
(* current_article is one of its scraped pages.                            *)
C30_CurrentArticleIsLoaded ==
    current_article # NoneDict =>
        /\ gsc_data # NoneDict
        /\ current_article \in Range(gsc_data.scraped_pages)

====
